---------------------------- MODULE Spec2Model ----------------------------
(***************************************************************************)
(* A model of the RAG DataChat Assistant: the document chunker             *)
(* (src/connectors/document_loader.py), the vector store                   *)
(* (src/core/vector_store.py), the RAG engine (src/core/rag_engine.py),    *)
(* the generation client (src/llm/ollama_client.py) and the chat endpoint  *)
(* with its usage gate (src/api/routes/chat.py, src/auth/database.py).     *)
(*                                                                         *)
(* Text is a sequence of one-character strings, so that slicing, rfind     *)
(* and strip are computed as Python computes them.  Python indices are     *)
(* 0-based; the operators below take and return Python indices and shift   *)
(* by one only where they touch a TLA+ sequence.                           *)
(***************************************************************************)
EXTENDS Integers, Sequences, FiniteSets, TLC

VARIABLES
    \* DocumentChunker.chunk_text: its inputs, loop variables and position
    text, chunk_size, chunk_overlap, start, chunks, wins, cpc,
    \* VectorStore: the entries of the collection, by id
    collection,
    \* RAGEngine: its constructor arguments and the conversation history
    top_k, similarity_threshold, conversation_history,
    \* history variable: the llm_model argument the engine was constructed with
    llm_model,
    \* the module's global Ollama client: the model it was created with, or
    \* "none" before the first get_ollama_client call
    ollama_client,
    \* UsageDB: how many usage rows there are per user, action and timestamp;
    \* the clock
    usage, now,
    \* history variable: the anonymous chat requests answered so far today
    served,
    \* chat calls running at the same time on one engine: where each of them
    \* is, and the order in which they arrived
    threads, arrived,
    \* the last operation: its arguments, what it called and what it returned
    resp

chunkVars == <<text, chunk_size, chunk_overlap, start, chunks, wins, cpc>>

storeVars == <<collection>>

engineVars == <<top_k, similarity_threshold, conversation_history, llm_model, ollama_client>>

usageVars == <<usage, now, served>>

callVars == <<threads, arrived>>

vars == <<text, chunk_size, chunk_overlap, start, chunks, wins, cpc,
          collection, top_k, similarity_threshold, conversation_history,
          llm_model, ollama_client,
          usage, now, served, threads, arrived, resp>>

---------------------------------------------------------------------------
(* Bounds of the model *)

MaxTextLen == 7
MaxPunctLen == 4
MaxChunkSize == 6
MaxCount == 2
MaxBatch == 2
MaxHistory == 5
MaxResults == 3
MaxTime == 3
MaxNewRows == 2
MaxCalls == 2
MaxShortLen == 3
MaxDescent == 3
MaxFiles == 2
TicksPerDay == 2

(* Constants of the program.  Distances and thresholds are in tenths: 20 is
   the 2.0 of the source, 7 its 0.7. *)

DefaultChunkSize == 1000
DefaultChunkOverlap == 200
DefaultTopK == 5
ApiTopK == 2
DefaultSimilarityThreshold == 7
DistanceThreshold == 20
HistoryFold == 3
FreeLimit == 10
ProLimit == 1000
Unlimited == -1
DefaultLimit == 10
AnonymousLimit == 10
UsageWindowDays == 1
TooManyRequests == 429
ServerError == 500
Ok == 200
PreviewLength == 200
NotImplemented == 501
BadRequest == 400

---------------------------------------------------------------------------
(* Python's str operations, on sequences of characters *)

\* The characters of the texts that are chunked: a letter, a blank and the
\* three marks chunk_text looks for.  Texts of full length use PlainChars;
\* the shorter ones use every mark.
PlainChars == {"a", " ", "."}

Chars == {"a", " ", ".", "?", "!"}

Whitespace == {" ", "\n", "\t"}

SetMax(S) == CHOOSE m \in S : \A x \in S : x <= m

SetMin(S) == CHOOSE m \in S : \A x \in S : m <= x

\* How Python turns a slice bound into a position of a string of length n:
\* a negative bound counts from the end, and the result is clamped to 0..n.
NormIndex(i, n) ==
    IF i < 0
    THEN (IF i + n < 0 THEN 0 ELSE i + n)
    ELSE (IF i > n THEN n ELSE i)

\* t[s:e]
Slice(t, s, e) ==
    LET lo == NormIndex(s, Len(t))
        hi == NormIndex(e, Len(t))
    IN  IF lo >= hi THEN <<>> ELSE SubSeq(t, lo + 1, hi)

\* t.rfind(sub, s, e): the highest index i with sub = t[i:i+len(sub)] lying
\* wholly inside t[s:e], or -1.
RFind(t, sub, s, e) ==
    LET lo == NormIndex(s, Len(t))
        hi == NormIndex(e, Len(t))
        at == {i \in lo..(hi - Len(sub)) : SubSeq(t, i + 1, i + Len(sub)) = sub}
    IN  IF at = {} THEN -1 ELSE SetMax(at)

\* A strip that trims the left end only.
StripLeading(s) ==
    LET keep == {i \in 1..Len(s) : s[i] \notin Whitespace}
    IN  IF keep = {} THEN <<>> ELSE SubSeq(s, SetMin(keep), Len(s))

\* s.strip()
Strip(s) ==
    LET keep == {i \in 1..Len(s) : s[i] \notin Whitespace}
    IN  IF keep = {} THEN <<>> ELSE SubSeq(s, SetMin(keep), SetMax(keep))

Max3(a, b, c) == SetMax({a, b, c})

---------------------------------------------------------------------------
(* DocumentChunker.chunk_text *)

\* The sentence boundary looked for inside the window t[s:e].
SentenceEnd(t, s, e) ==
    Max3(RFind(t, <<".", " ">>, s, e),
         RFind(t, <<"?", " ">>, s, e),
         RFind(t, <<"!", " ">>, s, e))

\* A cut at the sentence end's punctuation mark, not after it.
WindowEndBeforeMark(t, s, size) ==
    LET end == s + size
    IN  IF end < Len(t)
        THEN (LET sentence_end == SentenceEnd(t, s, end)
              IN  IF sentence_end # -1 THEN sentence_end ELSE end)
        ELSE end

\* The right edge of the window that starts at s.
WindowEnd(t, s, size) ==
    LET end == s + size
    IN  IF end < Len(t)
        THEN (LET sentence_end == SentenceEnd(t, s, end)
              IN  IF sentence_end # -1 THEN sentence_end + 1 ELSE end)
        ELSE end

\* "Move start with overlap"
NextStart(t, end, overlap) ==
    IF end < Len(t) THEN end - overlap ELSE Len(t)

\* The window starts the loop has been at.
Visited == {wins[i].s : i \in 1..Len(wins)}

\* The loop is back at a window start it has already processed.  The body
\* reads only text, chunk_size, chunk_overlap and start, so from here it
\* repeats what it did before, for ever: chunk_text does not return.  The
\* model stops unrolling the loop at this point.
Stalled == cpc = "loop" /\ start < Len(text) /\ start \in Visited

ChunkEnter ==
    /\ cpc = "call"
    /\ cpc' = IF text = <<>> THEN "done" ELSE "loop"
    /\ start' = 0
    /\ chunks' = <<>>
    /\ UNCHANGED <<text, chunk_size, chunk_overlap, wins>>
    /\ UNCHANGED <<storeVars, engineVars, usageVars, callVars, resp>>

ChunkIterate ==
    /\ cpc = "loop"
    /\ start < Len(text)
    /\ ~Stalled
    /\ LET end == WindowEnd(text, start, chunk_size)
           chunk == Strip(Slice(text, start, end))
       IN  /\ chunks' = IF chunk # <<>> THEN Append(chunks, chunk) ELSE chunks
           /\ wins' = Append(wins, [s |-> start, e |-> end, emitted |-> chunk # <<>>])
           /\ start' = NextStart(text, end, chunk_overlap)
    /\ UNCHANGED <<text, chunk_size, chunk_overlap, cpc>>
    /\ UNCHANGED <<storeVars, engineVars, usageVars, callVars, resp>>

ChunkReturn ==
    /\ cpc = "loop"
    /\ start >= Len(text)
    /\ cpc' = "done"
    /\ UNCHANGED <<text, chunk_size, chunk_overlap, start, chunks, wins>>
    /\ UNCHANGED <<storeVars, engineVars, usageVars, callVars, resp>>

---------------------------------------------------------------------------
(* The collaborators: the embedding service, the index and the model server *)

Documents == {"near", "edge", "far"}

Questions == {"q0", "q5"}

\* The embedding service.  Embeddings are one-dimensional here, in tenths.
Embed(x) ==
    CASE x = "near" -> 0
      [] x = "edge" -> 20
      [] x = "far"  -> 25
      [] x = "q0"   -> 0
      [] x = "q5"   -> 5

Abs(n) == IF n < 0 THEN -n ELSE n

\* The L2 distance of two embedded texts.
L2(a, b) == Abs(Embed(a) - Embed(b))

Min2(a, b) == IF a < b THEN a ELSE b

Range(f) == {f[i] : i \in DOMAIN f}

\* f"doc_{n}"
DocId(n) == <<"doc_", n>>

DocIds == {DocId(n) : n \in 0..MaxCount}

Count(coll) == Cardinality(DOMAIN coll)

Restrict(coll, S) == [id \in S |-> coll[id]]

EmptyCollection == Restrict(<<>>, {})

\* collection.query(query_embeddings=[e], n_results=n): the n nearest
\* entries (all of them when the collection holds fewer), nearest first, as
\* four parallel lists.  Entries at the same distance come in either order.
SearchResults(coll, query, n) ==
    LET k == Min2(n, Count(coll))
        dist(id) == L2(query, coll[id].document)
        orders == {o \in [1..k -> DOMAIN coll] :
                     /\ \A i, j \in 1..k : i < j => o[i] # o[j] /\ dist(o[i]) <= dist(o[j])
                     /\ \A id \in DOMAIN coll \ Range(o) :
                            \A i \in 1..k : dist(o[i]) <= dist(id)}
    IN  {[ids       |-> o,
          documents |-> [i \in 1..k |-> coll[o[i]].document],
          distances |-> [i \in 1..k |-> dist(o[i])],
          metadatas |-> [i \in 1..k |-> coll[o[i]].metadata]] : o \in orders}

EmptyResults == [ids |-> <<>>, documents |-> <<>>, distances |-> <<>>, metadatas |-> <<>>]

\* What the model server can do with a generation request.
GenOutcomes == {"ok", "unavailable", "timeout", "http_error"}

\* The texts the model server answers with.
LLMTexts == {<<" ", "Paris", "\n">>}

\* A client that returns the failure's message as its text.
OllamaGenerateAbsorbing(g, reply) ==
    CASE g = "unavailable" ->
           [raised |-> "none", message |-> "", text |-> <<"Ollama service is not available">>]
      [] g = "timeout" ->
           [raised |-> "none", message |-> "", text |-> <<"Ollama request timed out">>]
      [] g = "http_error" ->
           [raised |-> "none", message |-> "", text |-> <<"500 Server Error">>]
      [] OTHER ->
           [raised |-> "none", message |-> "", text |-> reply]

\* OllamaClient.generate: the text generated, or the exception raised.
OllamaGenerate(g, reply) ==
    CASE g = "unavailable" ->
           [raised |-> "ConnectionError", message |-> "Ollama service is not available", text |-> <<>>]
      [] g = "timeout" ->
           [raised |-> "TimeoutError", message |-> "Ollama request timed out", text |-> <<>>]
      [] g = "http_error" ->
           [raised |-> "HTTPError", message |-> "500 Server Error", text |-> <<>>]
      [] OTHER ->
           [raised |-> "none", message |-> "", text |-> reply]

---------------------------------------------------------------------------
(* The record of the last operation *)

\* The model names of the callers.
Models == {"mistral", "tinyllama", "llama2"}

NoPrompt == [template |-> "none", history |-> <<>>, context |-> <<>>, question |-> "none"]

NoResp ==
    [op |-> "none", raised |-> "none", calls |-> <<>>,
     ids |-> <<>>, question |-> "none", use_history |-> FALSE, gen |-> "none",
     n_given |-> FALSE, n_results |-> 0, asked |-> 0,
     searched |-> EmptyResults, context |-> EmptyResults, has_context |-> FALSE,
     prompt |-> NoPrompt, answer |-> <<>>, num_sources |-> 0,
     stats |-> [total_documents |-> 0, conversation_length |-> 0,
                top_k |-> 0, similarity_threshold |-> 0],
     user |-> [id |-> 0, tier |-> "none"], limit |-> 0, usage_count |-> 0,
     db |-> "none", status |-> 0, detail |-> <<>>, sources |-> <<>>,
     files |-> <<>>, chunks |-> <<>>, metadatas |-> <<>>, num_chunks |-> 0,
     model |-> "none"]

---------------------------------------------------------------------------
(* VectorStore *)

\* "Generate IDs if not provided"
GeneratedIds(coll, n) ==
    LET existing_count == Count(coll)
    IN  [i \in 1..n |-> DocId(existing_count + (i - 1))]

\* "Create default metadata if not provided"
Metadatas(given, n) ==
    IF given = "none" THEN [i \in 1..n |-> [source |-> "unknown"]]
    ELSE [i \in 1..n |-> [source |-> given]]

\* collection.add, when no id of the call is in the collection, and when
\* the index skips the ids it already holds.
Inserted(coll, ids, documents, metadatas) ==
    [id \in DOMAIN coll \cup Range(ids) |->
        IF id \in DOMAIN coll THEN coll[id]
        ELSE LET i == CHOOSE j \in 1..Len(ids) : ids[j] = id
             IN  [document |-> documents[i], metadata |-> metadatas[i]]]

\* VectorStore.add_documents(documents, metadatas) with ids omitted, reached
\* through RAGEngine.add_documents.  env is what the collaborators do: the
\* embedding service fails ("embed_error"), or it works and the index either
\* skips an id it already holds ("ok") or refuses the call that brings one
\* ("refuse_duplicates").
AddDocuments(documents, given, env) ==
    LET n == Len(documents)
        ids == GeneratedIds(collection, n)
        metadatas == Metadatas(given, n)
        clash == Range(ids) \cap DOMAIN collection # {}
    IN  /\ Count(collection) + n <= MaxCount
        /\ IF n = 0
           THEN /\ resp' = [NoResp EXCEPT !.op = "add_documents"]
                /\ UNCHANGED collection
           ELSE IF env = "embed_error"
           THEN /\ resp' = [NoResp EXCEPT !.op = "add_documents", !.calls = <<"count", "embed">>,
                                          !.raised = "EmbeddingError"]
                /\ UNCHANGED collection
           ELSE IF clash /\ env = "refuse_duplicates"
           THEN /\ resp' = [NoResp EXCEPT !.op = "add_documents",
                                          !.calls = <<"count", "embed", "add">>,
                                          !.ids = ids, !.raised = "DuplicateIDError"]
                /\ UNCHANGED collection
           ELSE /\ resp' = [NoResp EXCEPT !.op = "add_documents",
                                          !.calls = <<"count", "embed", "add">>, !.ids = ids]
                /\ collection' = Inserted(collection, ids, documents, metadatas)
        /\ UNCHANGED <<chunkVars, engineVars, usageVars, callVars>>

\* VectorStore.delete_by_ids
DeleteByIds(ids) ==
    /\ collection' = Restrict(collection, DOMAIN collection \ ids)
    /\ resp' = [NoResp EXCEPT !.op = "delete_by_ids", !.calls = <<"delete">>]
    /\ UNCHANGED <<chunkVars, engineVars, usageVars, callVars>>

\* VectorStore.reset
Reset ==
    /\ collection' = EmptyCollection
    /\ resp' = [NoResp EXCEPT !.op = "reset",
                              !.calls = <<"delete_collection", "create_collection">>]
    /\ UNCHANGED <<chunkVars, engineVars, usageVars, callVars>>

---------------------------------------------------------------------------
(* RAGEngine *)

\* A filter that drops the candidate at the threshold itself.
KeepsStrict(distance) == distance < DistanceThreshold

\* The test of "Filter by similarity threshold".
Keeps(distance) == distance <= DistanceThreshold

\* The filtering loop of retrieve_context, from the i-th search result on;
\* acc is filtered_results so far.
RECURSIVE FilterFrom(_, _, _)
FilterFrom(results, i, acc) ==
    IF i > Len(results.distances) THEN acc
    ELSE LET distance == results.distances[i]
         IN  FilterFrom(results, i + 1,
                IF Keeps(distance)
                THEN [ids       |-> Append(acc.ids, results.ids[i]),
                      documents |-> Append(acc.documents, results.documents[i]),
                      distances |-> Append(acc.distances, distance),
                      metadatas |-> Append(acc.metadatas, results.metadatas[i])]
                ELSE acc)

\* A retrieval that hands on the raw search result.
RawResults(results) == results

FilteredResults(results) == FilterFrom(results, 1, EmptyResults)

\* "n_results = n_results or self.top_k": an omitted n_results (given is
\* FALSE) and 0 both give top_k.
RequestedResults(given, n_results) ==
    IF ~given \/ n_results = 0 THEN top_k ELSE n_results

\* sep.join(parts), for parts that are sequences of tokens
RECURSIVE Join(_, _)
Join(sep, parts) ==
    IF parts = <<>> THEN <<>>
    ELSE IF Len(parts) = 1 THEN parts[1]
    ELSE parts[1] \o <<sep>> \o Join(sep, Tail(parts))

\* A format_context that gives the empty string for an empty result.
FormatContextBlank(retrieved_docs) ==
    IF retrieved_docs.documents = <<>>
    THEN <<>>
    ELSE Join("\n",
              [i \in 1..Len(retrieved_docs.documents) |->
                  <<"[Document ", i, " - Source: ", retrieved_docs.metadatas[i].source,
                    "]\n", retrieved_docs.documents[i], "\n">>])

\* RAGEngine.format_context
FormatContext(retrieved_docs) ==
    IF retrieved_docs.documents = <<>>
    THEN <<"No relevant context found.">>
    ELSE Join("\n",
              [i \in 1..Len(retrieved_docs.documents) |->
                  <<"[Document ", i, " - Source: ", retrieved_docs.metadatas[i].source,
                    "]\n", retrieved_docs.documents[i], "\n">>])

\* RAG_QA_TEMPLATE.format(context=..., question=...)
RagQaPrompt(context, question) ==
    [template |-> "RAG_QA_TEMPLATE", history |-> <<>>, context |-> context,
     question |-> question]

\* CONVERSATION_TEMPLATE.format(history=..., context=..., question=...)
ConversationPrompt(history_text, context, question) ==
    [template |-> "CONVERSATION_TEMPLATE", history |-> history_text, context |-> context,
     question |-> question]

\* A fold of the whole history.
HistoryTextAll(history) ==
    Join("\n",
         [i \in 1..Len(history) |->
             <<"User: ", history[i].user, "\nAssistant: ">> \o history[i].assistant])

\* The history folded into a prompt: the last exchanges, one
\* "User: ...\nAssistant: ..." each, joined by newlines.
HistoryText(history) ==
    LET recent == Slice(history, -HistoryFold, Len(history))
    IN  Join("\n",
             [i \in 1..Len(recent) |->
                 <<"User: ", recent[i].user, "\nAssistant: ">> \o recent[i].assistant])

\* An answer that gives the bare message of a failed generation call.
AnswerBare(r) ==
    IF r.raised = "none" THEN Strip(r.text)
    ELSE <<r.message>>

\* What generate_answer does with the outcome r of the generation call.
AnswerOf(r) ==
    IF r.raised = "none" THEN Strip(r.text)
    ELSE <<"Error generating answer: ", r.message>>

\* RAGEngine.generate_answer
GenerateAnswer(g, reply) == AnswerOf(OllamaGenerate(g, reply))

\* RAGEngine.retrieve_context(query, n_results)
RetrieveContext(query, given, n_results, env) ==
    /\ IF env = "index_error"
       THEN resp' = [NoResp EXCEPT !.op = "retrieve_context", !.question = query,
                                   !.n_given = given, !.n_results = n_results,
                                   !.asked = RequestedResults(given, n_results),
                                   !.calls = <<"search">>, !.raised = "IndexError"]
       ELSE \E results \in SearchResults(collection, query,
                                         RequestedResults(given, n_results)) :
                resp' = [NoResp EXCEPT !.op = "retrieve_context", !.question = query,
                                       !.n_given = given, !.n_results = n_results,
                                       !.asked = RequestedResults(given, n_results),
                                       !.calls = <<"search">>,
                                       !.searched = results,
                                       !.context = FilteredResults(results),
                                       !.has_context = TRUE,
                                       !.num_sources = Len(FilteredResults(results).documents)]
    /\ UNCHANGED <<chunkVars, storeVars, engineVars, usageVars, callVars>>

\* The global client after get_ollama_client(model=model): created with the
\* model if there is none yet, else the one there is.
GetOllamaClient(client, model) == IF client = "none" THEN model ELSE client

\* health_check(): get_ollama_client(model="tinyllama"), then is_available().
HealthCheck(available) ==
    /\ ollama_client' = GetOllamaClient(ollama_client, "tinyllama")
    /\ resp' = [NoResp EXCEPT !.op = "health_check",
                              !.calls = <<"get_ollama_client", "is_available">>,
                              !.model = ollama_client',
                              !.answer = IF available THEN <<"healthy">> ELSE <<"degraded">>,
                              !.status = Ok]
    /\ UNCHANGED <<chunkVars, storeVars, usageVars, callVars,
                   top_k, similarity_threshold, conversation_history, llm_model>>

\* RAGEngine(vector_store, llm_model, top_k, similarity_threshold)
NewEngine(model, k, threshold) ==
    /\ ollama_client' = GetOllamaClient(ollama_client, model)
    /\ llm_model' = model
    /\ top_k' = k
    /\ similarity_threshold' = threshold
    /\ conversation_history' = <<>>
    /\ resp' = [NoResp EXCEPT !.op = "RAGEngine", !.calls = <<"get_ollama_client">>,
                              !.model = ollama_client']
    /\ UNCHANGED <<chunkVars, storeVars, usageVars, callVars>>

\* self.llm_client.generate(prompt, ...) of the engine: the request names
\* the model of the client the engine holds, which is the global client.
EngineGenerate(env, reply) ==
    /\ llm_model # "none"
    /\ LET r == OllamaGenerate(env, reply)
       IN  resp' = [NoResp EXCEPT !.op = "generate", !.calls = <<"generate">>,
                                  !.gen = env, !.model = ollama_client,
                                  !.raised = r.raised,
                                  !.answer = r.text]
    /\ UNCHANGED <<chunkVars, storeVars, engineVars, usageVars, callVars>>

\* What retrieve_context of an engine built with the given
\* similarity_threshold keeps of a search result.  The constructor stores the
\* argument and get_stats reports it; the loop of retrieve_context does not
\* read it.
RetrievedBy(threshold, results) == FilteredResults(results)

\* RAGEngine.query(question, return_context).  env is what the collaborators
\* do: the search fails ("index_error"), or it works and the generation call
\* ends as env says, reply being the text generated.
Query(question, return_context, env, reply) ==
    /\ IF env = "index_error"
       THEN resp' = [NoResp EXCEPT !.op = "query", !.question = question,
                                   !.calls = <<"search">>, !.raised = "IndexError"]
       ELSE \E results \in SearchResults(collection, question, top_k) :
                LET retrieved_docs == FilteredResults(results)
                    context == FormatContext(retrieved_docs)
                IN  resp' = [NoResp EXCEPT
                               !.op = "query", !.question = question,
                               !.calls = <<"search", "generate">>,
                               !.gen = env,
                               !.searched = results,
                               !.prompt = RagQaPrompt(context, question),
                               !.answer = GenerateAnswer(env, reply),
                               !.num_sources = Len(retrieved_docs.documents),
                               !.has_context = return_context,
                               !.context = IF return_context THEN retrieved_docs
                                           ELSE EmptyResults]
    /\ UNCHANGED <<chunkVars, storeVars, engineVars, usageVars, callVars>>

\* A history that keeps its two latest turns only when it takes a new one.
HistoryWindowed(history, question, use_history, answer) ==
    Append(Slice(history, -2, Len(history)), [user |-> question, assistant |-> answer])

\* The history after a chat call whose generation call returned text.
HistoryAfterChat(history, question, use_history, answer) ==
    Append(history, [user |-> question, assistant |-> answer])

\* RAGEngine.chat(question, use_history, return_context)
Chat(question, use_history, return_context, env, reply) ==
    /\ Len(conversation_history) < MaxHistory
    /\ IF env = "index_error"
       THEN /\ resp' = [NoResp EXCEPT !.op = "chat", !.question = question,
                                      !.use_history = use_history,
                                      !.calls = <<"search">>, !.raised = "IndexError"]
            /\ UNCHANGED conversation_history
       ELSE \E results \in SearchResults(collection, question, top_k) :
                LET retrieved_docs == FilteredResults(results)
                    context == FormatContext(retrieved_docs)
                    prompt == IF use_history /\ conversation_history # <<>>
                              THEN ConversationPrompt(HistoryText(conversation_history),
                                                      context, question)
                              ELSE RagQaPrompt(context, question)
                    r == OllamaGenerate(env, reply)
                IN  IF r.raised # "none"
                    THEN /\ resp' = [NoResp EXCEPT
                                       !.op = "chat", !.question = question,
                                       !.use_history = use_history,
                                       !.calls = <<"search", "generate">>,
                                       !.gen = env, !.searched = results,
                                       !.prompt = prompt, !.raised = r.raised]
                         /\ UNCHANGED conversation_history
                    ELSE /\ conversation_history' =
                               HistoryAfterChat(conversation_history, question,
                                                use_history, r.text)
                         /\ resp' = [NoResp EXCEPT
                                       !.op = "chat", !.question = question,
                                       !.use_history = use_history,
                                       !.calls = <<"search", "generate">>,
                                       !.gen = env, !.searched = results,
                                       !.prompt = prompt,
                                       !.answer = Strip(r.text),
                                       !.num_sources = Len(retrieved_docs.documents),
                                       !.has_context = return_context,
                                       !.context = IF return_context THEN retrieved_docs
                                                   ELSE EmptyResults]
    /\ UNCHANGED <<chunkVars, storeVars, usageVars, callVars, top_k, similarity_threshold, llm_model, ollama_client>>

\* RAGEngine.clear_history
ClearHistory ==
    /\ conversation_history' = <<>>
    /\ resp' = [NoResp EXCEPT !.op = "clear_history"]
    /\ UNCHANGED <<chunkVars, storeVars, usageVars, callVars, top_k, similarity_threshold, llm_model, ollama_client>>

\* RAGEngine.get_stats
GetStats ==
    /\ resp' = [NoResp EXCEPT
                  !.op = "get_stats", !.calls = <<"count">>,
                  !.stats = [total_documents |-> Count(collection),
                             conversation_length |-> Len(conversation_history),
                             top_k |-> top_k,
                             similarity_threshold |-> similarity_threshold]]
    /\ UNCHANGED <<chunkVars, storeVars, engineVars, usageVars, callVars>>

---------------------------------------------------------------------------
(* RAGEngine.chat, called from several threads on one engine.  A thread can
   be overtaken wherever chat waits for a collaborator: after the search,
   and while the model server generates. *)

Callers == 1..MaxCalls

IdleCall ==
    [pc |-> "idle", question |-> "none", context |-> <<>>, seen |-> 0,
     prompt |-> NoPrompt, slot |-> 0, user |-> [id |-> 0, tier |-> "none"],
     documents |-> <<>>, metadatas |-> <<>>, ids |-> <<>>]

\* add_documents with ids omitted, called by several threads on the one
\* collection.  The call reads the count and numbers its documents ...
AddNumber(c, documents, given) ==
    LET n == Len(documents)
    IN  /\ threads[c].pc \in {"idle", "added", "raised"}
        /\ n > 0
        /\ Count(collection) + n <= MaxCount
        /\ threads' = [threads EXCEPT ![c] =
                          [IdleCall EXCEPT !.pc = "numbered",
                                           !.documents = documents,
                                           !.metadatas = Metadatas(given, n),
                                           !.ids = GeneratedIds(collection, n)]]
        /\ UNCHANGED <<chunkVars, storeVars, engineVars, usageVars, arrived, resp>>

\* ... and, the embeddings made, hands them to collection.add and returns
\* its ids.
AddInsert(c, env) ==
    LET t == threads[c]
        clash == Range(t.ids) \cap DOMAIN collection # {}
    IN  /\ t.pc = "numbered"
        /\ IF env = "embed_error"
           THEN /\ resp' = [NoResp EXCEPT !.op = "add_documents", !.calls = <<"count", "embed">>,
                                          !.raised = "EmbeddingError"]
                /\ threads' = [threads EXCEPT ![c].pc = "raised"]
                /\ UNCHANGED collection
           ELSE IF clash /\ env = "refuse_duplicates"
           THEN /\ resp' = [NoResp EXCEPT !.op = "add_documents",
                                          !.calls = <<"count", "embed", "add">>,
                                          !.ids = t.ids, !.raised = "DuplicateIDError"]
                /\ threads' = [threads EXCEPT ![c].pc = "raised"]
                /\ UNCHANGED collection
           ELSE /\ resp' = [NoResp EXCEPT !.op = "add_documents",
                                          !.calls = <<"count", "embed", "add">>, !.ids = t.ids]
                /\ threads' = [threads EXCEPT ![c].pc = "added"]
                /\ collection' = Inserted(collection, t.ids, t.documents, t.metadatas)
        /\ UNCHANGED <<chunkVars, engineVars, usageVars, arrived>>

\* The call arrives and retrieves its context.
ChatArrive(c, question) ==
    /\ threads[c].pc = "idle"
    /\ \E results \in SearchResults(collection, question, top_k) :
           threads' = [threads EXCEPT ![c] =
                          [@ EXCEPT !.pc = "retrieved", !.question = question,
                                    !.context = FormatContext(FilteredResults(results))]]
    /\ arrived' = Append(arrived, c)
    /\ UNCHANGED <<chunkVars, storeVars, engineVars, usageVars, resp>>

\* "Build prompt with history": the call reads the history as it is now.
ChatPrompt(c) ==
    /\ threads[c].pc = "retrieved"
    /\ threads' = [threads EXCEPT ![c] =
                      [@ EXCEPT !.pc = "prompted",
                                !.seen = Len(conversation_history),
                                !.prompt = IF conversation_history # <<>>
                                           THEN ConversationPrompt(
                                                    HistoryText(conversation_history),
                                                    @.context, @.question)
                                           ELSE RagQaPrompt(@.context, @.question)]]
    /\ UNCHANGED <<chunkVars, storeVars, engineVars, usageVars, arrived, resp>>

\* The generation call of the thread ends, and chat appends its turn and
\* returns, or passes the exception on.
ChatFinish(c, env, reply) ==
    /\ threads[c].pc = "prompted"
    /\ LET r == OllamaGenerate(env, reply)
           call == [NoResp EXCEPT !.op = "chat", !.question = threads[c].question,
                                  !.use_history = TRUE,
                                  !.calls = <<"search", "generate">>, !.gen = env,
                                  !.prompt = threads[c].prompt]
       IN  IF r.raised # "none"
           THEN /\ threads' = [threads EXCEPT ![c].pc = "raised"]
                /\ resp' = [call EXCEPT !.raised = r.raised]
                /\ UNCHANGED conversation_history
           ELSE /\ conversation_history' =
                      HistoryAfterChat(conversation_history, threads[c].question, TRUE, r.text)
                /\ threads' = [threads EXCEPT ![c].pc = "returned",
                                              ![c].slot = Len(conversation_history) + 1]
                /\ resp' = [call EXCEPT !.answer = Strip(r.text)]
    /\ UNCHANGED <<chunkVars, storeVars, usageVars, top_k, similarity_threshold, llm_model, ollama_client, arrived>>

---------------------------------------------------------------------------
(* UsageDB *)

UserIds == {1, 2}

Actions == {"chat", "login"}

UsageKeys == [user_id : UserIds, action : Actions, timestamp : 0..MaxTime]

RECURSIVE Sum(_, _)
Sum(f, S) ==
    IF S = {} THEN 0
    ELSE LET x == CHOOSE y \in S : TRUE
         IN  f[x] + Sum(f, S \ {x})

\* UsageDB.get_user_usage_count(user_id, action, days); action is "none"
\* when the caller gives none.
UsageCount(rows, clock, user_id, action, days) ==
    LET cutoff_time == clock - days * TicksPerDay
    IN  Sum(rows, {k \in UsageKeys :
                     /\ k.user_id = user_id
                     /\ k.timestamp > cutoff_time
                     /\ (action # "none" => k.action = action)})

\* A write that files the row under the time before.
LoggedEarlier(rows, clock, user_id, action) ==
    LET k == [user_id |-> user_id, action |-> action, timestamp |-> clock - 1]
    IN  [rows EXCEPT ![k] = @ + 1]

\* The rows after UsageDB.log_action(user_id, action) commits.
Logged(rows, clock, user_id, action) ==
    LET k == [user_id |-> user_id, action |-> action, timestamp |-> clock]
    IN  [rows EXCEPT ![k] = @ + 1]

\* Time passes.
Tick ==
    /\ now < MaxTime
    /\ now' = now + 1
    /\ UNCHANGED <<chunkVars, storeVars, engineVars, callVars, usage, served, resp>>

---------------------------------------------------------------------------
(* The chat endpoint, POST /api/chat *)

\* "Usage limits per tier"
TierLimits == [free |-> FreeLimit, pro |-> ProLimit, enterprise |-> Unlimited]

\* current_user.get("tier", "free"); "absent" stands for a user record with
\* no tier key.
TierOf(current_user) ==
    IF current_user.tier = "absent" THEN "free" ELSE current_user.tier

\* TIER_LIMITS.get(tier, 10)
TierLimit(tier) ==
    IF tier \in DOMAIN TierLimits THEN TierLimits[tier] ELSE DefaultLimit

\* The caller without identity: current_user is None.
Anonymous == [id |-> 0, tier |-> "none"]

\* "if current_user:"
Authenticated(current_user) == current_user # Anonymous

\* A gate that lets the request at the limit pass.
GateDeniesOver(limit, usage_count) == limit > 0 /\ usage_count > limit

\* "Check if limit exceeded (unless unlimited)"
GateDenies(limit, usage_count) == limit > 0 /\ usage_count >= limit

\* A handler with the one except clause that makes a 500 of everything.
CaughtAll(exc) ==
    [status |-> ServerError, detail |-> <<"Error generating response: ", exc.message>>]

\* What the handler's except clauses make of an exception: an HTTPException
\* is raised again as it is, anything else becomes a 500.
Caught(exc) ==
    IF exc.type = "HTTPException"
    THEN [status |-> exc.status, detail |-> exc.detail]
    ELSE [status |-> ServerError, detail |-> <<"Error generating response: ", exc.message>>]

\* The length of a stored document, in characters.
DocLength(doc) == IF doc = "edge" THEN 250 ELSE 40

\* doc[:200] + "..." if len(doc) > 200 else doc
Preview(doc) ==
    IF DocLength(doc) > PreviewLength
    THEN <<[first |-> PreviewLength, of |-> doc], "...">>
    ELSE <<doc>>

\* "Format sources"
Sources(context) ==
    [i \in 1..Len(context.documents) |->
        [content  |-> Preview(context.documents[i]),
         metadata |-> IF i <= Len(context.metadatas) THEN context.metadatas[i]
                      ELSE [source |-> "none"]]]

\* What the collaborators do during one request: the usage count query, the
\* search, the generation call and the usage write.
ApiEnvs ==
    {[count |-> "ok",    index |-> "ok",    gen |-> "ok",          db |-> "ok"],
     [count |-> "ok",    index |-> "ok",    gen |-> "ok",          db |-> "error"],
     [count |-> "ok",    index |-> "ok",    gen |-> "timeout",     db |-> "ok"],
     [count |-> "ok",    index |-> "ok",    gen |-> "unavailable", db |-> "ok"],
     [count |-> "ok",    index |-> "error", gen |-> "ok",          db |-> "ok"],
     [count |-> "error", index |-> "ok",    gen |-> "ok",          db |-> "ok"]}

\* The rows this run has written: those stamped after time 0.
NewRows(rows) == Sum(rows, {k \in UsageKeys : k.timestamp > 0})

\* chat(request, rag_engine, current_user)
ApiChatHandler(current_user, question, env, reply) ==
    LET authenticated == Authenticated(current_user)
        tier == TierOf(current_user)
        limit == TierLimit(tier)
        counted == authenticated /\ limit > 0
        usage_count == IF counted /\ env.count = "ok"
                       THEN UsageCount(usage, now, current_user.id, "chat", UsageWindowDays)
                       ELSE 0
        gate == IF counted THEN <<"get_user_usage_count">> ELSE <<>>
        base == [NoResp EXCEPT !.op = "api_chat", !.user = current_user,
                               !.question = question,
                               !.limit = IF authenticated THEN limit ELSE 0,
                               !.usage_count = usage_count]
    IN  /\ NewRows(usage) < MaxNewRows
        /\ IF counted /\ env.count = "error"
           THEN LET e == Caught([type |-> "Exception", status |-> 0, detail |-> <<>>,
                                 message |-> "database error"])
                IN  /\ resp' = [base EXCEPT !.calls = gate, !.raised = "DatabaseError",
                                            !.status = e.status, !.detail = e.detail]
                    /\ UNCHANGED usage
           ELSE IF counted /\ GateDenies(limit, usage_count)
           THEN LET e == Caught([type |-> "HTTPException", status |-> TooManyRequests,
                                 detail |-> <<"Daily limit exceeded. Upgrade to Pro for more queries! (",
                                              usage_count, "/", limit, ")">>,
                                 message |-> ""])
                IN  /\ resp' = [base EXCEPT !.calls = gate, !.status = e.status,
                                            !.detail = e.detail]
                    /\ UNCHANGED usage
           ELSE IF env.index = "error"
           THEN LET e == Caught([type |-> "Exception", status |-> 0, detail |-> <<>>,
                                 message |-> "index error"])
                IN  /\ resp' = [base EXCEPT !.calls = gate \o <<"search">>,
                                            !.raised = "IndexError",
                                            !.status = e.status, !.detail = e.detail]
                    /\ UNCHANGED usage
           ELSE \E results \in SearchResults(collection, question, top_k) :
                    LET retrieved_docs == FilteredResults(results)
                        context == FormatContext(retrieved_docs)
                        log == IF authenticated THEN <<"log_action">> ELSE <<>>
                    IN  /\ resp' = [base EXCEPT
                                      !.calls = gate \o <<"search", "generate">> \o log,
                                      !.gen = env.gen,
                                      !.db = IF authenticated THEN env.db ELSE "none",
                                      !.searched = results,
                                      !.prompt = RagQaPrompt(context, question),
                                      !.answer = GenerateAnswer(env.gen, reply),
                                      !.num_sources = Len(retrieved_docs.documents),
                                      !.has_context = TRUE,
                                      !.context = retrieved_docs,
                                      !.sources = Sources(retrieved_docs),
                                      !.status = Ok]
                        /\ usage' = IF authenticated /\ env.db = "ok"
                                    THEN Logged(usage, now, current_user.id, "chat")
                                    ELSE usage
        /\ UNCHANGED <<chunkVars, storeVars, engineVars, callVars, now>>

ApiChat(current_user, question, env, reply) ==
    /\ ApiChatHandler(current_user, question, env, reply)
    /\ UNCHANGED served

\* The chat endpoint serving several requests at a time, as the workers of
\* one deployment do over the one usage table.  A request of an
\* authenticated user first reads its usage count and is denied or let
\* through ...
ApiChatGate(c, current_user, env) ==
    LET limit == TierLimit(TierOf(current_user))
        counted == limit > 0
        usage_count == IF counted /\ env.count = "ok"
                       THEN UsageCount(usage, now, current_user.id, "chat", UsageWindowDays)
                       ELSE 0
        gate == IF counted THEN <<"get_user_usage_count">> ELSE <<>>
        base == [NoResp EXCEPT !.op = "api_chat", !.user = current_user,
                               !.limit = limit, !.usage_count = usage_count,
                               !.calls = gate]
    IN  /\ threads[c].pc = "idle"
        /\ Authenticated(current_user)
        /\ NewRows(usage) < MaxNewRows
        /\ IF counted /\ env.count = "error"
           THEN LET e == Caught([type |-> "Exception", status |-> 0, detail |-> <<>>,
                                 message |-> "database error"])
                IN  /\ resp' = [base EXCEPT !.raised = "DatabaseError",
                                            !.status = e.status, !.detail = e.detail]
                    /\ UNCHANGED threads
           ELSE IF counted /\ GateDenies(limit, usage_count)
           THEN LET e == Caught([type |-> "HTTPException", status |-> TooManyRequests,
                                 detail |-> <<"Daily limit exceeded. Upgrade to Pro for more queries! (",
                                              usage_count, "/", limit, ")">>,
                                 message |-> ""])
                IN  /\ resp' = [base EXCEPT !.status = e.status, !.detail = e.detail]
                    /\ UNCHANGED threads
           ELSE /\ threads' = [threads EXCEPT ![c] =
                                  [@ EXCEPT !.pc = "passed", !.user = current_user,
                                            !.seen = usage_count]]
                /\ UNCHANGED resp
        /\ UNCHANGED <<chunkVars, storeVars, engineVars, usageVars, arrived>>

\* ... and then, if let through, queries the engine and logs the action.
ApiChatAnswer(c, question, env, reply) ==
    LET current_user == threads[c].user
        limit == TierLimit(TierOf(current_user))
        gate == IF limit > 0 THEN <<"get_user_usage_count">> ELSE <<>>
        base == [NoResp EXCEPT !.op = "api_chat", !.user = current_user,
                               !.question = question, !.limit = limit,
                               !.usage_count = threads[c].seen]
    IN  /\ threads[c].pc = "passed"
        /\ threads' = [threads EXCEPT ![c] = IdleCall]
        /\ IF env.index = "error"
           THEN LET e == Caught([type |-> "Exception", status |-> 0, detail |-> <<>>,
                                 message |-> "index error"])
                IN  /\ resp' = [base EXCEPT !.calls = gate \o <<"search">>,
                                            !.raised = "IndexError",
                                            !.status = e.status, !.detail = e.detail]
                    /\ UNCHANGED usage
           ELSE \E results \in SearchResults(collection, question, top_k) :
                    LET retrieved_docs == FilteredResults(results)
                        context == FormatContext(retrieved_docs)
                    IN  /\ resp' = [base EXCEPT
                                      !.calls = gate \o <<"search", "generate", "log_action">>,
                                      !.gen = env.gen, !.db = env.db,
                                      !.searched = results,
                                      !.prompt = RagQaPrompt(context, question),
                                      !.answer = GenerateAnswer(env.gen, reply),
                                      !.num_sources = Len(retrieved_docs.documents),
                                      !.has_context = TRUE,
                                      !.context = retrieved_docs,
                                      !.sources = Sources(retrieved_docs),
                                      !.status = Ok]
                        /\ usage' = IF env.db = "ok"
                                    THEN Logged(usage, now, current_user.id, "chat")
                                    ELSE usage
        /\ UNCHANGED <<chunkVars, storeVars, engineVars, arrived, now, served>>

\* The chat endpoint called without identity, the answered requests counted.
AnonymousChat(question, env, reply) ==
    /\ served <= AnonymousLimit
    /\ ApiChatHandler(Anonymous, question, env, reply)
    /\ served' = IF resp'.status = Ok THEN served + 1 ELSE served

---------------------------------------------------------------------------
(* The reset endpoint, POST /api/documents/reset *)

\* A reset that replaces the collection and leaves the history alone.
ResetStoreOnly(env) ==
    /\ IF env = "delete_error"
       THEN /\ resp' = [NoResp EXCEPT
                          !.op = "reset_database", !.calls = <<"delete_collection">>,
                          !.raised = "ChromaError", !.status = ServerError,
                          !.detail = <<"Error resetting database: ", "delete failed">>]
            /\ UNCHANGED <<collection, conversation_history>>
       ELSE /\ collection' = EmptyCollection
            /\ UNCHANGED conversation_history
            /\ resp' = [NoResp EXCEPT
                          !.op = "reset_database",
                          !.calls = <<"delete_collection", "create_collection">>,
                          !.status = Ok]
    /\ UNCHANGED <<chunkVars, usageVars, callVars, top_k, similarity_threshold, llm_model, ollama_client>>

\* reset_database(rag_engine): vector_store.reset(), then clear_history().
\* env is what the index does: it deletes and creates the collection, or
\* the delete fails.
ResetDatabase(env) ==
    /\ IF env = "delete_error"
       THEN /\ resp' = [NoResp EXCEPT
                          !.op = "reset_database", !.calls = <<"delete_collection">>,
                          !.raised = "ChromaError", !.status = ServerError,
                          !.detail = <<"Error resetting database: ", "delete failed">>]
            /\ UNCHANGED <<collection, conversation_history>>
       ELSE /\ collection' = EmptyCollection
            /\ conversation_history' = <<>>
            /\ resp' = [NoResp EXCEPT
                          !.op = "reset_database",
                          !.calls = <<"delete_collection", "create_collection",
                                      "clear_history">>,
                          !.status = Ok]
    /\ UNCHANGED <<chunkVars, usageVars, callVars, top_k, similarity_threshold, llm_model, ollama_client>>

---------------------------------------------------------------------------
(* DocumentLoader *)

\* The files on disk: what FileValidator says of their size, what reading
\* them does, and the text that reading yields.
FileSystem ==
    [p \in {"a.txt", "b.pdf", "d.docx", "e.md", "big.txt", "c.csv", "bad.pdf"} |->
        CASE p = "a.txt"   -> [name |-> p, ext |-> ".txt", fits |-> TRUE, read |-> "ok",
                               content |-> <<"a", ".", " ", "a">>]
          [] p = "b.pdf"   -> [name |-> p, ext |-> ".pdf", fits |-> TRUE, read |-> "ok",
                               content |-> <<"b", "b">>]
          [] p = "d.docx"  -> [name |-> p, ext |-> ".docx", fits |-> TRUE, read |-> "ok",
                               content |-> <<"d", " ", "d">>]
          [] p = "e.md"    -> [name |-> p, ext |-> ".md", fits |-> TRUE, read |-> "ok",
                               content |-> <<>>]
          [] p = "big.txt" -> [name |-> p, ext |-> ".txt", fits |-> FALSE, read |-> "ok",
                               content |-> <<"a">>]
          [] p = "c.csv"   -> [name |-> p, ext |-> ".csv", fits |-> TRUE, read |-> "ok",
                               content |-> <<"c">>]
          [] p = "bad.pdf" -> [name |-> p, ext |-> ".pdf", fits |-> TRUE, read |-> "error",
                               content |-> <<>>]]

FilePaths == DOMAIN FileSystem

\* chunk_text as a function of its arguments: the chunks of the windows from
\* start s on, and whether the loop comes to its end.  It does not when it
\* is back at a start it has been at, or goes down without end.
RECURSIVE ChunkFrom(_, _, _, _, _)
ChunkFrom(t, size, overlap, s, seen) ==
    IF s >= Len(t) THEN [returns |-> TRUE, chunks |-> <<>>]
    ELSE IF s \in seen \/ s < -MaxDescent THEN [returns |-> FALSE, chunks |-> <<>>]
    ELSE LET end == WindowEnd(t, s, size)
             chunk == Strip(Slice(t, s, end))
             rest == ChunkFrom(t, size, overlap, NextStart(t, end, overlap), seen \cup {s})
         IN  [returns |-> rest.returns,
              chunks |-> IF chunk # <<>> THEN <<chunk>> \o rest.chunks ELSE rest.chunks]

ChunkText(t, size, overlap) ==
    IF t = <<>> THEN [returns |-> TRUE, chunks |-> <<>>]
    ELSE ChunkFrom(t, size, overlap, 0, {})

NoDocument ==
    [chunks |-> <<>>, metadatas |-> <<>>, file_name |-> "none", file_type |-> "none",
     total_chunks |-> 0]

\* load_document(file_path) of a loader whose chunker has the given size
\* and overlap: what it raises, or the dictionary it returns.
LoadDocument(file_path, size, overlap) ==
    LET f == FileSystem[file_path]
        c == ChunkText(f.content, size, overlap)
    IN  IF ~f.fits THEN [raised |-> "ValueError", returns |-> TRUE, value |-> NoDocument]
        ELSE IF f.ext \notin {".pdf", ".docx", ".txt", ".md"}
        THEN [raised |-> "ValueError", returns |-> TRUE, value |-> NoDocument]
        ELSE IF f.read # "ok"
        THEN [raised |-> "Exception", returns |-> TRUE, value |-> NoDocument]
        ELSE [raised |-> "none", returns |-> c.returns,
              value |-> [chunks |-> c.chunks,
                         metadatas |-> [i \in 1..Len(c.chunks) |->
                                           [source |-> f.name, file_type |-> f.ext,
                                            chunk_index |-> i - 1,
                                            total_chunks |-> Len(c.chunks)]],
                         file_name |-> f.name, file_type |-> f.ext,
                         total_chunks |-> Len(c.chunks)]]

\* A batch loop that keeps the chunks of a document and loses their metadata.
GatheredChunksOnly(acc, r) ==
    IF r.raised = "none"
    THEN [chunks |-> acc.chunks \o r.value.chunks, metadatas |-> acc.metadatas]
    ELSE acc

\* One turn of the loop of load_multiple_documents: the try extends both
\* lists, the except clause logs and goes on to the next file.
Gathered(acc, r) ==
    IF r.raised = "none"
    THEN [chunks |-> acc.chunks \o r.value.chunks,
          metadatas |-> acc.metadatas \o r.value.metadatas]
    ELSE acc

RECURSIVE LoadAll(_, _, _)
LoadAll(file_paths, size, overlap) ==
    IF file_paths = <<>> THEN [chunks |-> <<>>, metadatas |-> <<>>]
    ELSE LET n == Len(file_paths)
         IN  Gathered(LoadAll(SubSeq(file_paths, 1, n - 1), size, overlap),
                      LoadDocument(file_paths[n], size, overlap))

\* load_multiple_documents(file_paths).  The call returns when the chunking
\* of every readable file does.
LoadMultipleDocuments(file_paths) ==
    /\ \A i \in 1..Len(file_paths) :
           LoadDocument(file_paths[i], chunk_size, chunk_overlap).returns
    /\ LET all == LoadAll(file_paths, chunk_size, chunk_overlap)
       IN  resp' = [NoResp EXCEPT !.op = "load_multiple_documents",
                                  !.files = file_paths,
                                  !.chunks = all.chunks,
                                  !.metadatas = all.metadatas,
                                  !.asked = Len(file_paths),
                                  !.num_chunks = Len(all.chunks)]
    /\ UNCHANGED <<chunkVars, storeVars, engineVars, usageVars, callVars>>

---------------------------------------------------------------------------
(* The upload endpoint, POST /api/documents/upload *)

ALLOWED_EXTENSIONS == {".txt", ".pdf", ".docx"}

\* The parameters load_document takes besides self.
LoadDocumentParams == {"file_path"}

\* What the except clauses of upload_document make of an exception.
UploadCaught(exc) ==
    IF exc.type = "HTTPException"
    THEN [status |-> exc.status, detail |-> exc.detail]
    ELSE [status |-> ServerError, detail |-> <<"Error uploading document: ", exc.message>>]

\* upload_document(file, rag_engine) for an upload with the name and the
\* content of a file.  The handler calls loader.load_document(tmp_path,
\* filename=file.filename); the call binds no parameter named filename, so
\* it raises TypeError before load_document runs and the statements after
\* it are not reached.
UploadDocument(file) ==
    /\ LET f == FileSystem[file]
           exc == IF f.ext \notin ALLOWED_EXTENSIONS
                  THEN [type |-> "HTTPException", status |-> BadRequest,
                        detail |-> <<"Unsupported file type: ", f.ext>>, message |-> ""]
                  ELSE [type |-> "TypeError", status |-> 0, detail |-> <<>>,
                        message |-> "unexpected keyword argument 'filename'"]
           e == UploadCaught(exc)
       IN  /\ f.ext \in ALLOWED_EXTENSIONS => ~({"filename"} \subseteq LoadDocumentParams)
           /\ resp' = [NoResp EXCEPT !.op = "upload_document", !.files = <<file>>,
                                     !.raised = exc.type,
                                     !.status = e.status, !.detail = e.detail]
    /\ UNCHANGED <<chunkVars, storeVars, engineVars, usageVars, callVars>>

---------------------------------------------------------------------------
(* The delete endpoint, DELETE /api/documents/{document_id} *)

\* A handler whose one except clause makes a 500 of everything.
DeleteCaughtAll(exc) ==
    [status |-> ServerError, detail |-> <<"Error deleting document: ", exc.message>>]

\* What the except clauses of delete_document make of an exception.
DeleteCaught(exc) ==
    IF exc.type = "HTTPException"
    THEN [status |-> exc.status, detail |-> exc.detail]
    ELSE [status |-> ServerError, detail |-> <<"Error deleting document: ", exc.message>>]

\* delete_document(document_id, rag_engine)
DeleteDocument(document_id) ==
    /\ LET e == DeleteCaught([type |-> "HTTPException", status |-> NotImplemented,
                              detail |-> <<"Document deletion by ID not yet implemented. Use database reset instead.">>,
                              message |-> ""])
       IN  resp' = [NoResp EXCEPT !.op = "delete_document", !.ids = <<document_id>>,
                                  !.status = e.status, !.detail = e.detail]
    /\ UNCHANGED <<chunkVars, storeVars, engineVars, usageVars, callVars>>

---------------------------------------------------------------------------
(* The specifications *)

Texts ==
    UNION ({[1..n -> PlainChars] : n \in 0..MaxTextLen}
           \cup {[1..n -> Chars] : n \in 0..MaxPunctLen})

CallsIdle ==
    /\ threads = [c \in Callers |-> IdleCall]
    /\ arrived = <<>>

UsageIdle ==
    /\ usage = [k \in UsageKeys |-> 0]
    /\ now = 1
    /\ served = 0

ChunkIdle ==
    /\ text = <<>>
    /\ chunk_size = DefaultChunkSize
    /\ chunk_overlap = DefaultChunkOverlap
    /\ start = 0
    /\ chunks = <<>>
    /\ wins = <<>>
    /\ cpc = "idle"

InitChunk ==
    /\ text \in Texts
    /\ chunk_size \in 1..MaxChunkSize
    /\ chunk_overlap \in 0..chunk_size
    /\ start = 0
    /\ chunks = <<>>
    /\ wins = <<>>
    /\ cpc = "call"
    /\ collection = EmptyCollection
    /\ top_k = DefaultTopK
    /\ llm_model = "mistral"
    /\ ollama_client = "mistral"
    /\ similarity_threshold = DefaultSimilarityThreshold
    /\ conversation_history = <<>>
    /\ UsageIdle
    /\ CallsIdle
    /\ resp = NoResp

NextChunk == ChunkEnter \/ ChunkIterate \/ ChunkReturn

SpecChunk == InitChunk /\ [][NextChunk]_vars

\* chunk_text for whatever parameters the constructor is given, which takes
\* them as they are.  With such parameters the window start can go down
\* without end; the loop is followed down to -MaxDescent.
ShortTexts == UNION {[1..n -> Chars] : n \in 0..MaxShortLen}

InitChunkAny ==
    /\ text \in ShortTexts
    /\ chunk_size \in -1..MaxChunkSize
    /\ chunk_overlap \in -1..(MaxChunkSize + 1)
    /\ start = 0
    /\ chunks = <<>>
    /\ wins = <<>>
    /\ cpc = "call"
    /\ collection = EmptyCollection
    /\ top_k = DefaultTopK
    /\ llm_model = "mistral"
    /\ ollama_client = "mistral"
    /\ similarity_threshold = DefaultSimilarityThreshold
    /\ conversation_history = <<>>
    /\ UsageIdle
    /\ CallsIdle
    /\ resp = NoResp

NextChunkAny ==
    \/ ChunkEnter
    \/ start >= -MaxDescent /\ ChunkIterate
    \/ ChunkReturn

SpecChunkAny == InitChunkAny /\ [][NextChunkAny]_vars

\* The vector store alone, from an empty collection.
DocumentLists == UNION {[1..n -> Documents] : n \in 0..MaxBatch}

InitStore ==
    /\ ChunkIdle
    /\ collection = EmptyCollection
    /\ top_k = DefaultTopK
    /\ llm_model = "mistral"
    /\ ollama_client = "mistral"
    /\ similarity_threshold = DefaultSimilarityThreshold
    /\ conversation_history = <<>>
    /\ UsageIdle
    /\ CallsIdle
    /\ resp = NoResp

NextStore ==
    \/ \E documents \in DocumentLists, given \in {"none", "a.txt"},
          env \in {"ok", "embed_error", "refuse_duplicates"} :
            AddDocuments(documents, given, env)
    \/ \E ids \in SUBSET DocIds : DeleteByIds(ids)
    \/ Reset

SpecStore == InitStore /\ [][NextStore]_vars

\* The engine over a collection that earlier runs have filled (the index is
\* persistent): entry i of a list below is stored under doc_(i-1).
Stored(entries) ==
    [id \in {DocId(i - 1) : i \in 1..Len(entries)} |->
        LET i == CHOOSE j \in 1..Len(entries) : DocId(j - 1) = id
        IN  [document |-> entries[i][1], metadata |-> [source |-> entries[i][2]]]]

InitCollections ==
    {Stored(<<>>),
     Stored(<<<<"far", "unknown">>>>),
     Stored(<<<<"far", "a.txt">>, <<"edge", "unknown">>>>),
     Stored(<<<<"far", "a.txt">>, <<"edge", "unknown">>, <<"edge", "b.txt">>>>),
     Stored(<<<<"edge", "a.txt">>, <<"far", "b.txt">>, <<"near", "unknown">>>>)}

\* retrieve_context alone, for every top_k and n_results.
TopKs == {1, ApiTopK, DefaultTopK}

InitRetrieve ==
    /\ ChunkIdle
    /\ collection \in InitCollections
    /\ top_k \in TopKs
    /\ llm_model = "mistral"
    /\ ollama_client = "mistral"
    /\ similarity_threshold = DefaultSimilarityThreshold
    /\ conversation_history = <<>>
    /\ UsageIdle
    /\ CallsIdle
    /\ resp = NoResp

NextRetrieve ==
    \E query \in Questions, given \in BOOLEAN, env \in {"ok", "index_error"} :
        \E n_results \in IF given THEN 0..MaxResults ELSE {0} :
            RetrieveContext(query, given, n_results, env)

SpecRetrieve == InitRetrieve /\ [][NextRetrieve]_vars

\* A loader reading batches of files, and the upload endpoint.
FileLists == UNION {[1..n -> FilePaths] : n \in 0..MaxFiles}

InitDocuments ==
    /\ text = <<>>
    /\ chunk_size \in 1..2
    /\ chunk_overlap \in 0..(chunk_size - 1)
    /\ start = 0
    /\ chunks = <<>>
    /\ wins = <<>>
    /\ cpc = "idle"
    /\ collection = Stored(<<<<"near", "a.txt">>>>)
    /\ top_k = ApiTopK
    /\ llm_model = "tinyllama"
    /\ ollama_client = "tinyllama"
    /\ similarity_threshold = DefaultSimilarityThreshold
    /\ conversation_history = <<>>
    /\ UsageIdle
    /\ CallsIdle
    /\ resp = NoResp

NextDocuments ==
    \/ \E file_paths \in FileLists : LoadMultipleDocuments(file_paths)
    \/ \E file \in FilePaths : UploadDocument(file)

SpecDocuments == InitDocuments /\ [][NextDocuments]_vars

\* Engines built with one similarity_threshold or another, retrieving and
\* reporting their statistics.
SimilarityThresholds == {DefaultSimilarityThreshold, 22}

InitThresholds ==
    /\ ChunkIdle
    /\ collection \in InitCollections
    /\ top_k \in TopKs
    /\ llm_model = "mistral"
    /\ ollama_client = "mistral"
    /\ similarity_threshold \in SimilarityThresholds
    /\ conversation_history = <<>>
    /\ UsageIdle
    /\ CallsIdle
    /\ resp = NoResp

NextThresholds ==
    \/ \E query \in Questions, env \in {"ok", "index_error"} :
            RetrieveContext(query, FALSE, 0, env)
    \/ GetStats

SpecThresholds == InitThresholds /\ [][NextThresholds]_vars

\* A process from its start: health checks, engines built for one model or
\* another, and the generation calls of the engine built last.
InitModels ==
    /\ ChunkIdle
    /\ collection = EmptyCollection
    /\ top_k = DefaultTopK
    /\ similarity_threshold = DefaultSimilarityThreshold
    /\ conversation_history = <<>>
    /\ llm_model = "none"
    /\ ollama_client = "none"
    /\ UsageIdle
    /\ CallsIdle
    /\ resp = NoResp

NextModels ==
    \/ \E available \in BOOLEAN : HealthCheck(available)
    \/ \E model \in Models, k \in TopKs, threshold \in SimilarityThresholds :
            NewEngine(model, k, threshold)
    \/ \E env \in GenOutcomes, reply \in LLMTexts : EngineGenerate(env, reply)

SpecModels == InitModels /\ [][NextModels]_vars

\* The engine as the API builds it (top_k = 2), answering questions.
EnvOutcomes == {"index_error"} \cup GenOutcomes

Init ==
    /\ ChunkIdle
    /\ collection \in InitCollections
    /\ top_k = ApiTopK
    /\ llm_model = "tinyllama"
    /\ ollama_client = "tinyllama"
    /\ similarity_threshold = DefaultSimilarityThreshold
    /\ conversation_history = <<>>
    /\ UsageIdle
    /\ CallsIdle
    /\ resp = NoResp

Next ==
    \/ \E question \in Questions, return_context \in BOOLEAN,
          env \in EnvOutcomes, reply \in LLMTexts :
            Query(question, return_context, env, reply)
    \/ \E question \in Questions, use_history \in BOOLEAN, return_context \in BOOLEAN,
          env \in EnvOutcomes, reply \in LLMTexts :
            Chat(question, use_history, return_context, env, reply)
    \/ ClearHistory
    \/ GetStats

Spec == Init /\ [][Next]_vars

\* The chat endpoint over a usage table that earlier requests have filled:
\* user 1 has logged prior chat rows at time 0, next to rows that are not
\* its own chat rows.
PriorCounts == {0, FreeLimit - 1, FreeLimit, ProLimit - 1, ProLimit}

PriorUsage(prior) ==
    [k \in UsageKeys |->
        IF k.timestamp # 0 THEN 0
        ELSE IF k.user_id = 1 /\ k.action = "chat" THEN prior
        ELSE ProLimit]

ApiCollections ==
    {Stored(<<>>),
     Stored(<<<<"far", "a.txt">>, <<"edge", "unknown">>>>),
     Stored(<<<<"edge", "a.txt">>, <<"far", "b.txt">>, <<"near", "unknown">>>>)}

CurrentUsers ==
    {Anonymous} \cup [id : {1}, tier : {"free", "pro", "enterprise", "trial", "absent"}]

InitApi ==
    /\ ChunkIdle
    /\ collection \in ApiCollections
    /\ top_k = ApiTopK
    /\ llm_model = "tinyllama"
    /\ ollama_client = "tinyllama"
    /\ similarity_threshold = DefaultSimilarityThreshold
    /\ conversation_history = <<>>
    /\ \E prior \in PriorCounts : usage = PriorUsage(prior)
    /\ now = 1
    /\ served = 0
    /\ CallsIdle
    /\ resp = NoResp

NextApi ==
    \/ \E current_user \in CurrentUsers, env \in ApiEnvs, reply \in LLMTexts :
            ApiChat(current_user, "q0", env, reply)
    \/ Tick

SpecApi == InitApi /\ [][NextApi]_vars

\* Threads adding documents to the one collection, which is empty at first;
\* nothing is deleted.
NextAdds ==
    \/ \E c \in Callers, documents \in DocumentLists, given \in {"none", "a.txt"} :
            AddNumber(c, documents, given)
    \/ \E c \in Callers, env \in {"ok", "embed_error", "refuse_duplicates"} :
            AddInsert(c, env)

SpecAdds == InitStore /\ [][NextAdds]_vars

\* The chat endpoint serving requests of a free and of a pro user at the
\* same time, each user one row short of its limit or further from it.
RaceUsers == {[id |-> 1, tier |-> "free"], [id |-> 2, tier |-> "pro"]}

RacePriorUsage(free, pro) ==
    [k \in UsageKeys |->
        IF k.timestamp # 0 \/ k.action # "chat" THEN 0
        ELSE IF k.user_id = 1 THEN free ELSE pro]

InitRace ==
    /\ ChunkIdle
    /\ collection = Stored(<<<<"near", "a.txt">>>>)
    /\ top_k = ApiTopK
    /\ llm_model = "tinyllama"
    /\ ollama_client = "tinyllama"
    /\ similarity_threshold = DefaultSimilarityThreshold
    /\ conversation_history = <<>>
    /\ \E free \in {0, FreeLimit - 1}, pro \in {ProLimit - 1, ProLimit} :
           usage = RacePriorUsage(free, pro)
    /\ now = 1
    /\ served = 0
    /\ CallsIdle
    /\ resp = NoResp

NextRace ==
    \/ \E c \in Callers, current_user \in RaceUsers, env \in ApiEnvs :
            ApiChatGate(c, current_user, env)
    \/ \E c \in Callers, env \in ApiEnvs, reply \in LLMTexts :
            ApiChatAnswer(c, "q0", env, reply)
    \/ Tick

SpecRace == InitRace /\ [][NextRace]_vars

\* The chat endpoint with anonymous callers alone, within one day.
InitAnonymous ==
    /\ ChunkIdle
    /\ collection \in ApiCollections
    /\ top_k = ApiTopK
    /\ llm_model = "tinyllama"
    /\ ollama_client = "tinyllama"
    /\ similarity_threshold = DefaultSimilarityThreshold
    /\ conversation_history = <<>>
    /\ UsageIdle
    /\ CallsIdle
    /\ resp = NoResp

NextAnonymous ==
    \E env \in ApiEnvs, reply \in LLMTexts : AnonymousChat("q0", env, reply)

SpecAnonymous == InitAnonymous /\ [][NextAnonymous]_vars

\* The engine as the API builds it, asked directly and through the chat
\* endpoint.
AnswerUsers == {Anonymous, [id |-> 1, tier |-> "free"]}

NextAnswers ==
    \/ \E question \in Questions, return_context \in BOOLEAN,
          env \in EnvOutcomes, reply \in LLMTexts :
            Query(question, return_context, env, reply)
    \/ \E use_history \in BOOLEAN, return_context \in BOOLEAN,
          env \in EnvOutcomes, reply \in LLMTexts :
            Chat("q5", use_history, return_context, env, reply)
    \/ \E current_user \in AnswerUsers, env \in ApiEnvs, reply \in LLMTexts :
            ApiChat(current_user, "q0", env, reply)

SpecAnswers == Init /\ [][NextAnswers]_vars

\* The knowledge base of the API: documents come and go, questions are
\* asked, and the base is reset.
NextKnowledge ==
    \/ \E documents \in {<<"near">>, <<"far", "near">>}, env \in {"ok", "embed_error"} :
            AddDocuments(documents, "none", env)
    \/ \E ids \in SUBSET DocIds : DeleteByIds(ids)
    \/ \E document_id \in DocIds : DeleteDocument(document_id)
    \/ \E use_history \in BOOLEAN, env \in {"ok", "timeout"}, reply \in LLMTexts :
            Chat("q0", use_history, FALSE, env, reply)
    \/ \E env \in {"ok", "delete_error"} : ResetDatabase(env)
    \/ GetStats

SpecKnowledge == Init /\ [][NextKnowledge]_vars

\* Chat calls of several threads on the engine the API shares.
NextConcurrent ==
    \/ \E c \in Callers, question \in Questions : ChatArrive(c, question)
    \/ \E c \in Callers : ChatPrompt(c)
    \/ \E c \in Callers, env \in {"ok", "timeout"}, reply \in LLMTexts :
            ChatFinish(c, env, reply)

SpecConcurrent == Init /\ [][NextConcurrent]_vars

ValidParams == chunk_size >= 1 /\ 0 <= chunk_overlap /\ chunk_overlap < chunk_size

\* C1: for chunk_size >= 1 and 0 <= chunk_overlap < chunk_size, chunk_text
\* terminates: the loop never comes back to a window start it has already
\* processed (from which it would repeat for ever), so the window start
\* reaches the text length.
C1_Terminates == ValidParams => ~Stalled

\* The part of the text the window w holds: text[w.s:w.e].
WinLo(w) == NormIndex(w.s, Len(text))

WinHi(w) == NormIndex(w.e, Len(text))

InWindow(i, w) == WinLo(w) <= i /\ i < WinHi(w)

\* C2: for 0 <= chunk_overlap < chunk_size the returned chunks cover the
\* text: every character lies inside a window the loop took (no gap between
\* one window's end and the next window's start), and every character that
\* is not whitespace lies inside the window of an emitted chunk.
C2_Covers ==
    (cpc = "done" /\ ValidParams) =>
        \A i \in 0..(Len(text) - 1) :
            /\ \E k \in 1..Len(wins) : InWindow(i, wins[k])
            /\ text[i + 1] \notin Whitespace =>
                   \E k \in 1..Len(wins) : wins[k].emitted /\ InWindow(i, wins[k])

---------------------------------------------------------------------------
(* The vector store's ids *)

\* C3: every id add_documents generates (ids omitted) differs from every id
\* the collection holds at that moment and from the other ids of the call.
C3_GeneratedIdsFresh ==
    [][resp'.op = "add_documents" =>
         /\ Range(resp'.ids) \cap DOMAIN collection = {}
         /\ \A i, j \in 1..Len(resp'.ids) : i # j => resp'.ids[i] # resp'.ids[j]]_vars

---------------------------------------------------------------------------
(* The engine's answers *)

\* C4: the history changes only when history use is requested: a query, and
\* a chat call with use_history = FALSE, leave conversation_history as it
\* was; a chat call with use_history = TRUE that returns appends one turn.
C4_HistoryOnlyWhenRequested ==
    [][/\ resp'.op = "query" => conversation_history' = conversation_history
       /\ (resp'.op = "chat" /\ ~resp'.use_history) =>
              conversation_history' = conversation_history
       /\ (resp'.op = "chat" /\ resp'.use_history /\ resp'.raised = "none") =>
              /\ Len(conversation_history') = Len(conversation_history) + 1
              /\ SubSeq(conversation_history', 1, Len(conversation_history))
                     = conversation_history]_vars

GenFailures == GenOutcomes \ {"ok"}

\* The candidates of a search result that are within the threshold.
Kept(results) ==
    {i \in 1..Len(results.distances) : results.distances[i] <= DistanceThreshold}

\* C8: when the generation call fails during query, query still returns:
\* the answer is "Error generating answer: " followed by the failure's
\* message, and num_sources is the number of filtered candidates.
C8_QueryAbsorbsGenerationFailure ==
    (resp.op = "query" /\ resp.gen \in GenFailures) =>
        /\ resp.raised = "none"
        /\ resp.answer = <<"Error generating answer: ",
                           OllamaGenerate(resp.gen, <<>>).message>>
        /\ resp.num_sources = Cardinality(Kept(resp.searched))

C8_Witness ==
    /\ resp.op = "query"
    /\ resp.gen = "unavailable"
    /\ resp.num_sources = 1
    /\ Len(resp.searched.ids) = 2

\* How a caller can tell what an answering operation ended in: the type of
\* the exception it raised, a failure string in the answer, or an answer.
OutcomeKind(r) ==
    IF r.raised # "none" THEN r.raised
    ELSE IF r.answer # <<>> /\ r.answer[1] = "Error generating answer: "
    THEN "failure_string"
    ELSE "answer"

\* C9: a generation call that times out surfaces as an outcome of its own
\* kind, not as the failure string other generation failures give.
C9_TimeoutIsDistinct ==
    (resp.op \in {"query", "chat"} /\ resp.gen = "timeout") =>
        OutcomeKind(resp) # "failure_string"

\* The position, among the kept candidates, of kept candidate i.
Rank(results, i) == Cardinality({k \in Kept(results) : k <= i})

---------------------------------------------------------------------------
(* The usage gate of the chat endpoint *)

\* The chat rows of a user that lie in the trailing one-day window.
ChatRowsInWindow(user_id) ==
    Sum(usage, {k \in UsageKeys : /\ k.user_id = user_id
                                  /\ k.action = "chat"
                                  /\ now - k.timestamp < TicksPerDay})

\* All chat rows of a user.
ChatRows(rows, user_id) ==
    Sum(rows, {k \in UsageKeys : k.user_id = user_id /\ k.action = "chat"})

NamedLimit(tier) ==
    CASE tier = "free" -> 10
      [] tier = "pro" -> 1000
      [] tier = "enterprise" -> -1

\* The step is the handling of a chat request.
ChatRequest == resp'.op = "api_chat" /\ now' = now

\* The request the step handles went past the gate.
Passed == resp'.status # TooManyRequests /\ "search" \in Range(resp'.calls)

\* C5: a chat request of an authenticated caller of tier free, pro or
\* enterprise, whose count the usage store can tell, passes the usage gate if
\* and only if the tier's daily limit is negative or the caller's 'chat' rows
\* of the trailing one-day window are fewer than the limit; the limits are
\* 10, 1000 and unlimited.
C5_GatePassesIffUnderLimit ==
    [][(/\ ChatRequest
        /\ Authenticated(resp'.user)
        /\ TierOf(resp'.user) \in {"free", "pro", "enterprise"}
        /\ resp'.raised # "DatabaseError")
       => (Passed <=> \/ NamedLimit(TierOf(resp'.user)) < 0
                      \/ ChatRowsInWindow(resp'.user.id) < NamedLimit(TierOf(resp'.user)))]_vars

\* A free caller with ten chat rows in the window was turned away, having
\* been counted.
C5_Witness ==
    /\ resp.op = "api_chat"
    /\ resp.user.tier = "free"
    /\ resp.usage_count = FreeLimit
    /\ resp.status = TooManyRequests
    /\ now = 1

C7_DenialIs429 ==
    [][(/\ ChatRequest
        /\ Authenticated(resp'.user)
        /\ resp'.raised # "DatabaseError"
        /\ TierLimit(TierOf(resp'.user)) > 0
        /\ ChatRowsInWindow(resp'.user.id) >= TierLimit(TierOf(resp'.user)))
       => /\ resp'.status = TooManyRequests
          /\ Range(resp'.calls) \cap {"search", "generate", "log_action"} = {}
          /\ usage' = usage]_vars

\* A pro caller at the limit was denied.
C7_Witness ==
    /\ resp.op = "api_chat"
    /\ resp.user.tier = "pro"
    /\ resp.status = TooManyRequests
    /\ resp.usage_count = ProLimit

---------------------------------------------------------------------------
(* The context and the sources of an answer *)

\* The operation got as far as building its prompt.
Prompted(r) == r.op \in {"query", "chat"} /\ "generate" \in Range(r.calls)

\* C11: the context that query and chat put into the prompt is never the
\* empty string, and it is the sentinel "No relevant context found." exactly
\* when no candidate of the search survived the filter.
C11_ContextNeverEmpty ==
    Prompted(resp) =>
        /\ resp.prompt.context # <<>>
        /\ resp.prompt.context = <<"No relevant context found.">>
              <=> Kept(resp.searched) = {}

\* A chat whose search found candidates, all of them beyond the threshold.
C11_Witness ==
    /\ resp.op = "chat"
    /\ Len(resp.searched.ids) >= 1
    /\ Kept(resp.searched) = {}
    /\ resp.prompt.context = <<"No relevant context found.">>

\* The operation returned an answer.
Answered(r) ==
    /\ r.op \in {"query", "chat", "api_chat"}
    /\ r.raised = "none"
    /\ r.op = "api_chat" => r.status = Ok

\* C12: in every response of query and chat, num_sources is the number of
\* candidates that survived the distance threshold, which is the number of
\* documents of the returned context; the sources list of the chat endpoint
\* has that length too.
C12_NumSourcesIsFilteredCount ==
    Answered(resp) =>
        /\ resp.num_sources = Cardinality(Kept(resp.searched))
        /\ resp.has_context => Len(resp.context.documents) = resp.num_sources
        /\ resp.op = "api_chat" => Len(resp.sources) = resp.num_sources

\* The endpoint answered from a search of two candidates of which one
\* survived.
C12_Witness ==
    /\ resp.op = "api_chat"
    /\ resp.status = Ok
    /\ Len(resp.searched.ids) = 2
    /\ resp.num_sources = 1
    /\ Len(resp.sources) = 1

\* C13: retrieve_context asks the index for the requested number of
\* candidates, n_results when it is given and top_k when it is omitted, and
\* returns no more entries than that number.
C13_AtMostRequested ==
    (resp.op = "retrieve_context" /\ resp.raised = "none") =>
        LET requested == IF resp.n_given THEN resp.n_results ELSE top_k
        IN  /\ resp.asked = requested
            /\ Len(resp.context.ids) <= requested

---------------------------------------------------------------------------
(* The conversation history *)

\* The text of one turn as a prompt shows it.
TurnText(turn) == <<"User: ", turn.user, "\nAssistant: ">> \o turn.assistant

\* C14: a chat call with use_history on a history of n turns folds into its
\* prompt exactly the most recent min(3, n) turns, oldest first, each as
\* "User: <question>" followed by "Assistant: <answer>"; with n = 0 the
\* prompt is the one without a history section.
C14_FoldsLastThree ==
    [][(resp'.op = "chat" /\ resp'.use_history /\ "generate" \in Range(resp'.calls))
       => LET n == Len(conversation_history)
              k == IF n < 3 THEN n ELSE 3
          IN  IF n = 0
              THEN /\ resp'.prompt.template = "RAG_QA_TEMPLATE"
                   /\ resp'.prompt.history = <<>>
              ELSE /\ resp'.prompt.template = "CONVERSATION_TEMPLATE"
                   /\ resp'.prompt.history =
                         Join("\n", [i \in 1..k |-> TurnText(conversation_history[n - k + i])])]_vars

\* A chat on a history of four turns, the oldest of which differs from the
\* others, folded three turns.
C14_Witness ==
    /\ resp.op = "chat"
    /\ resp.use_history
    /\ resp.raised = "none"
    /\ Len(conversation_history) = 5
    /\ conversation_history[1].user # conversation_history[2].user
    /\ resp.prompt.history =
          Join("\n", [i \in 1..3 |-> TurnText(conversation_history[1 + i])])

\* C15: over any sequence of query, chat, get_stats and clear_history the
\* history changes only by a chat appending one turn at its end, the stored
\* turns staying as they are, or by clear_history, after which it is empty;
\* get_stats reports the length of the history, the number of turns appended
\* since the last clear.
C15_AppendOnlyUntilClear ==
    [][/\ \/ conversation_history' = conversation_history
          \/ /\ resp'.op = "chat"
             /\ Len(conversation_history') = Len(conversation_history) + 1
             /\ SubSeq(conversation_history', 1, Len(conversation_history))
                    = conversation_history
          \/ resp'.op = "clear_history"
       /\ resp'.op = "clear_history" => conversation_history' = <<>>
       /\ resp'.op = "get_stats" =>
              /\ conversation_history' = conversation_history
              /\ resp'.stats.conversation_length = Len(conversation_history)]_vars

\* get_stats on a history that has reached four turns.
C15_Witness ==
    /\ resp.op = "get_stats"
    /\ resp.stats.conversation_length = 4
    /\ Len(conversation_history) = 4

\* The place of a call in the order of arrival.
Arrival(c) == CHOOSE i \in 1..Len(arrived) : arrived[i] = c

ArrivedBefore(a, b) ==
    /\ a \in Range(arrived) /\ b \in Range(arrived)
    /\ Arrival(a) < Arrival(b)

\* C16: of chat calls that run at the same time on one engine, the turns are
\* stored in the order in which the calls arrived, and the history a call
\* folds into its prompt holds the turn of every call that arrived before it
\* and returned.
C16_TurnsInArrivalOrder ==
    \A a, b \in Callers :
        ArrivedBefore(a, b) =>
            /\ (threads[a].pc = "returned" /\ threads[b].pc = "returned")
                   => threads[a].slot < threads[b].slot
            /\ (threads[a].pc = "returned" /\ threads[b].pc \in {"prompted", "returned"})
                   => threads[a].slot <= threads[b].seen

---------------------------------------------------------------------------
(* The reset of the knowledge base *)

\* The reset endpoint has just answered that the base is reset.
ResetDone == resp.op = "reset_database" /\ resp.status = Ok

---------------------------------------------------------------------------
(* The chunks of chunk_text *)

\* c is t without its leading and trailing whitespace, and is not empty.
IsTrimOf(c, t) ==
    \E i, j \in 1..Len(t) :
        /\ i <= j
        /\ c = SubSeq(t, i, j)
        /\ t[i] \notin Whitespace /\ t[j] \notin Whitespace
        /\ \A k \in 1..Len(t) : (k < i \/ k > j) => t[k] \in Whitespace

AllWhitespace(t) == \A k \in 1..Len(t) : t[k] \in Whitespace

ShortText == cpc = "done" /\ text # <<>> /\ Len(text) < chunk_size

\* C18 as stated: a non-empty text shorter than chunk_size gives exactly one
\* chunk, the text trimmed.
C18_ShortTextOneChunk ==
    ShortText => Len(chunks) = 1 /\ (AllWhitespace(text) \/ IsTrimOf(chunks[1], text))

\* C18: a text shorter than chunk_size that holds a character that is not
\* whitespace gives exactly one chunk, the text without its leading and
\* trailing whitespace; a text of whitespace only gives no chunk.
C18_ShortTextTrimmed ==
    ShortText =>
        IF AllWhitespace(text) THEN chunks = <<>>
        ELSE Len(chunks) = 1 /\ IsTrimOf(chunks[1], text)

\* A short text with whitespace at both ends came back as its one trimmed
\* chunk.
C18_Witness ==
    /\ ShortText
    /\ text = <<" ", "a", ".", " ">>
    /\ chunks = <<<<"a", ".">>>>

\* C19: whatever the text and the parameters, every chunk chunk_text has
\* collected is non-empty and neither begins nor ends with whitespace, and
\* the empty text gives the empty sequence.
C19_ChunksTrimmedNonEmpty ==
    /\ \A i \in 1..Len(chunks) :
           /\ chunks[i] # <<>>
           /\ chunks[i][1] \notin Whitespace
           /\ chunks[i][Len(chunks[i])] \notin Whitespace
    /\ (cpc = "done" /\ text = <<>>) => chunks = <<>>

\* A text cut into windows of one character: the window that held the blank
\* gave no chunk.
C19_Witness ==
    /\ cpc = "done"
    /\ text = <<"a", " ", "a">>
    /\ chunk_size = 1
    /\ Len(wins) = 3
    /\ chunks = <<<<"a">>, <<"a">>>>

\* C20: with malformed parameters (chunk_size <= 0, chunk_overlap < 0 or
\* chunk_overlap >= chunk_size) chunk_text produces no chunk: the
\* parameters are refused, or replaced by a valid pair, before that.
C20_MalformedRejected ==
    ~ValidParams => chunks = <<>>

---------------------------------------------------------------------------
(* The document endpoints *)

ChunksOf(p) == LoadDocument(p, chunk_size, chunk_overlap).value.chunks

Loaded(p) == LoadDocument(p, chunk_size, chunk_overlap).raised = "none"

RECURSIVE Flatten(_)
Flatten(ss) == IF ss = <<>> THEN <<>> ELSE Head(ss) \o Flatten(Tail(ss))

\* C22: load_multiple_documents skips a document that fails and goes on:
\* its result holds, in the order of the input, exactly the chunks of the
\* documents that loaded, with one metadata entry per chunk, the i-th entry
\* describing the i-th chunk.
C22_BatchSkipsFailures ==
    resp.op = "load_multiple_documents" =>
        LET good == SelectSeq(resp.files, Loaded)
        IN  /\ resp.chunks = Flatten([i \in 1..Len(good) |-> ChunksOf(good[i])])
            /\ Len(resp.metadatas) = Len(resp.chunks)
            /\ \A i \in 1..Len(resp.chunks) :
                   LET m == resp.metadatas[i]
                   IN  \E j \in 1..Len(good) :
                           /\ m.source = FileSystem[good[j]].name
                           /\ m.total_chunks = Len(ChunksOf(good[j]))
                           /\ m.chunk_index + 1 \in 1..Len(ChunksOf(good[j]))
                           /\ ChunksOf(good[j])[m.chunk_index + 1] = resp.chunks[i]

\* A batch whose first file fails and whose second file loads into more
\* than one chunk.
C22_Witness ==
    /\ resp.op = "load_multiple_documents"
    /\ Len(resp.files) = 2
    /\ ~Loaded(resp.files[1])
    /\ Loaded(resp.files[2])
    /\ Len(resp.chunks) >= 2

---------------------------------------------------------------------------
(* The limit of the anonymous caller *)

\* C23: an anonymous caller has 10 chat requests a day: once 10 anonymous
\* requests have been answered in a day, the next one is denied.
C23_AnonymousLimited ==
    [][(resp'.op = "api_chat" /\ resp'.user = Anonymous /\ served >= AnonymousLimit)
          => resp'.status = TooManyRequests]_vars

---------------------------------------------------------------------------
(* Uploads *)

\* The chunks the upload's loader, built with the default sizes, makes of a
\* file.
UploadChunks(p) == ChunkText(FileSystem[p].content, DefaultChunkSize, DefaultChunkOverlap).chunks

\* C24: the upload of a readable file with an allowed extension succeeds,
\* the collection grows by the number of the file's chunks, and the
\* response reports that number as num_chunks.
C24_UploadAddsChunks ==
    [][(/\ resp'.op = "upload_document"
        /\ FileSystem[resp'.files[1]].ext \in ALLOWED_EXTENSIONS
        /\ FileSystem[resp'.files[1]].read = "ok")
          => /\ resp'.status = Ok
             /\ Count(collection') = Count(collection) + Len(UploadChunks(resp'.files[1]))
             /\ resp'.num_chunks = Len(UploadChunks(resp'.files[1]))]_vars

---------------------------------------------------------------------------
(* Sentence boundaries *)

Marks == {".", "?", "!"}

\* The positions in text[s:e] at which a punctuation mark is followed by a
\* space, both inside the slice.
Terminators(s, e) ==
    {i \in NormIndex(s, Len(text))..(NormIndex(e, Len(text)) - 2) :
        text[i + 1] \in Marks /\ text[i + 2] = " "}

\* What the window w gave: text[w.s:w.e] stripped.
ChunkOfWindow(w) == Strip(Slice(text, w.s, w.e))

\* C25: when the right edge start + chunk_size of a window lies strictly
\* inside the text and the window text[start:start + chunk_size] holds a
\* mark followed by a space, the chunk is cut just after the rightmost such
\* mark and the emitted chunk ends with '.', '?' or '!'; when the window
\* holds none, and only then, the cut is at start + chunk_size.
C25_CutAfterRightmostMark ==
    \A k \in 1..Len(wins) :
        LET w == wins[k]
            edge == w.s + chunk_size
            found == Terminators(w.s, edge)
        IN  edge < Len(text) =>
                /\ found # {} =>
                       /\ w.e = SetMax(found) + 1
                       /\ w.emitted
                       /\ ChunkOfWindow(w)[Len(ChunkOfWindow(w))] \in Marks
                /\ found = {} <=> w.e = edge

\* A call that returned after a window holding two marks was cut back to
\* the second of them.
C25_Witness ==
    /\ cpc = "done"
    /\ ValidParams
    /\ \E k \in 1..Len(wins) :
           /\ wins[k].s + chunk_size < Len(text)
           /\ Cardinality(Terminators(wins[k].s, wins[k].s + chunk_size)) >= 2
           /\ wins[k].e = SetMax(Terminators(wins[k].s, wins[k].s + chunk_size)) + 1
           /\ wins[k].emitted

---------------------------------------------------------------------------
(* The limit under concurrent requests *)

\* C26: whatever the interleaving of the chat requests of a free or pro
\* user, the number of the user's chat rows inside the trailing day never
\* exceeds the limit of the user's tier.
C26_LimitHoldsUnderConcurrency ==
    \A u \in RaceUsers :
        UsageCount(usage, now, u.id, "chat", UsageWindowDays) <= TierLimit(u.tier)

---------------------------------------------------------------------------
(* Concurrent adds *)

\* C27: two add_documents calls with ids omitted that run at the same time
\* on one collection, nothing being deleted, get disjoint generated ids,
\* however their count reads and inserts interleave.
C27_ConcurrentIdsDisjoint ==
    \A c, d \in Callers :
        (c # d /\ threads[c].pc \in {"numbered", "added"}
               /\ threads[d].pc \in {"numbered", "added"})
            => Range(threads[c].ids) \cap Range(threads[d].ids) = {}

---------------------------------------------------------------------------
(* A failed generation call during chat *)

\* C28: when the generation call fails during chat, chat passes the
\* exception on to its caller and leaves the conversation history exactly
\* as it was.
C28_FailedChatLeavesHistory ==
    [][(resp'.op = "chat" /\ resp'.gen \in GenFailures) =>
          /\ resp'.raised \in {"ConnectionError", "TimeoutError", "HTTPError"}
          /\ resp'.answer = <<>>
          /\ conversation_history' = conversation_history]_vars

\* A chat whose generation call failed, on an engine that holds a turn.
C28_Witness ==
    /\ resp.op = "chat"
    /\ resp.gen \in GenFailures
    /\ resp.raised # "none"
    /\ Len(conversation_history) >= 1

---------------------------------------------------------------------------
(* The configured threshold *)

Between(d, a, b) == (a < d /\ d < b) \/ (b < d /\ d < a)

\* C29: retrieve_context applies the engine's configured
\* similarity_threshold: an engine that differs from this one in its
\* similarity_threshold alone keeps a different set of candidates of a
\* search result in which the distance of a candidate lies between the two
\* thresholds.
C29_ConfiguredThresholdApplies ==
    (resp.op = "retrieve_context" /\ resp.raised = "none") =>
        \A other \in SimilarityThresholds \ {similarity_threshold} :
            (\E i \in 1..Len(resp.searched.distances) :
                 Between(resp.searched.distances[i], similarity_threshold, other))
                => resp.context # RetrievedBy(other, resp.searched)

---------------------------------------------------------------------------
(* The model of the generation calls *)

\* C30: the generation calls of an engine constructed with llm_model = m
\* name the model m, whatever get_ollama_client and RAGEngine calls, with
\* whatever model names, came before in the process.
C30_GeneratesWithOwnModel ==
    resp.op = "generate" => resp.model = llm_model

=============================================================================
